---- MODULE Spec2Model ----
(***************************************************************************)
(* Model of the Bing search scraper: the fetch / retry / soft-block        *)
(* recovery state machine (bing_parser.py, softblock_handler.py), the      *)
(* per-query page loop and the run driver (runner.py), and the record      *)
(* extraction functions.                                                   *)
(*                                                                         *)
(* Markup is a sequence of one-character strings, so that lower-casing and *)
(* substring search are computed as Python computes them.                  *)
(***************************************************************************)
EXTENDS Integers, Sequences, FiniteSets, TLC

\* ------------------------------------------------------------------------
\* Bounds of the model
\* ------------------------------------------------------------------------
MaxRetries == 2
MaxQueries == 2
MaxPages == 2
MaxChunks == 2
MaxNodes == 3
MaxItems == 2
MaxLinks == 2
MaxStrongs == 3

\* ------------------------------------------------------------------------
\* Text: str.lower() and the `in` substring test
\* ------------------------------------------------------------------------
UpperChars ==
  <<"A","B","C","D","E","F","G","H","I","J","K","L","M",
    "N","O","P","Q","R","S","T","U","V","W","X","Y","Z">>

LowerChars ==
  <<"a","b","c","d","e","f","g","h","i","j","k","l","m",
    "n","o","p","q","r","s","t","u","v","w","x","y","z">>

\* str.lower() on one (ASCII) character
lower_char(c) ==
  IF \E i \in 1..Len(UpperChars) : UpperChars[i] = c
  THEN LowerChars[CHOOSE i \in 1..Len(UpperChars) : UpperChars[i] = c]
  ELSE c

\* str.lower()
str_lower(s) == [i \in 1..Len(s) |-> lower_char(s[i])]

\* Python `needle in hay` on strings
str_contains(hay, needle) ==
  \E i \in 0..(Len(hay) - Len(needle)) :
    \A j \in 1..Len(needle) : hay[i + j] = needle[j]

\* SoftBlockHandler.SOFT_BLOCK_HINTS
SOFT_BLOCK_HINTS ==
  << <<"u","n","u","s","u","a","l"," ","t","r","a","f","f","i","c">>,
     <<"v","e","r","i","f","y"," ","t","h","a","t"," ","y","o","u"," ",
       "a","r","e"," ","a"," ","h","u","m","a","n">>,
     <<"d","e","t","e","c","t","e","d"," ","u","n","u","s","u","a","l"," ",
       "a","c","t","i","v","i","t","y">>,
     <<"p","l","e","a","s","e"," ","t","r","y"," ","a","g","a","i","n"," ",
       "l","a","t","e","r">>,
     <<"a","r","e"," ","y","o","u"," ","a"," ","r","o","b","o","t">>,
     <<"u","n","u","s","u","a","l"," ","b","e","h","a","v","i","o","r"," ",
       "f","r","o","m"," ","y","o","u","r"," ","c","o","m","p","u","t","e","r">> >>

\* mutant: the comparison is made on the markup as received (no lower())
is_soft_blocked_nolower(html) ==
  \E k \in 1..Len(SOFT_BLOCK_HINTS) : str_contains(html, SOFT_BLOCK_HINTS[k])

\* SoftBlockHandler.is_soft_blocked
is_soft_blocked(html) ==
  LET lower == str_lower(html)
  IN  \E k \in 1..Len(SOFT_BLOCK_HINTS) : str_contains(lower, SOFT_BLOCK_HINTS[k])

\* SoftBlockHandler.compute_backoff, without the jitter term (uniform in
\* [0, 0.5), added to the base): the base backoff_factor^(attempt-1) for the
\* default factor 3/2, as a fraction num/den.
compute_backoff(attempt) ==
  IF attempt > 0
  THEN [num |-> 3 ^ (attempt - 1), den |-> 2 ^ (attempt - 1)]
  ELSE [num |-> 1, den |-> 1]

\* ------------------------------------------------------------------------
\* The network: what one session.get can produce
\* ------------------------------------------------------------------------
PageA == <<"<","o","l",">","B","i","n","g","<","/","o","l",">">>
PageB == <<"N","o"," ","r","e","s","u","l","t","s">>
BlockA == <<"A","r","e"," ","Y","o","u"," ","a"," ","R","o","b","o","t","?">>
BlockB == <<"<","p",">","u","n","u","s","u","a","l"," ","t","r","a","f","f","i","c">>

\* responses of session.get: a body (resp.text) and resp.ok
Responses ==
  { [text |-> PageA,  ok |-> TRUE],
    [text |-> PageB,  ok |-> FALSE],
    [text |-> BlockA, ok |-> TRUE],
    [text |-> BlockA, ok |-> FALSE] }

\* Optional[str]
NoneHtml == [some |-> FALSE, text |-> << >>]
Some(t) == [some |-> TRUE, text |-> t]


\* ------------------------------------------------------------------------
\* State
\* ------------------------------------------------------------------------
VARIABLES
  entry,          \* the public entry point in use: "main" or "handle_soft_block"
  max_retries,    \* SoftBlockHandler.max_retries (request.maxRetries)
  queries,        \* main: the page count of each configured query, in order
  qi,             \* main: index of the query being processed (0 before the first)
  all_results,    \* main: all_results
  export_calls,   \* the argument of each export_all call made so far
  pc,             \* position of the (single) thread of control
  pages,          \* search: the pages argument
  page,           \* search: the loop variable
  results,        \* search: results
  html,           \* search: the markup returned by the last _fetch_page
  attempt,        \* _fetch_page: attempt
  r_attempt,      \* handle_soft_block: attempt
  original_html,  \* handle_soft_block: the original_html argument
  last_html,      \* handle_soft_block: last_html
  retval,         \* value returned by a direct handle_soft_block call
  error,          \* the exception that left the entry point, "" if none
  ftrace,         \* history of the current fetch: user-agent draws, sleeps, requests
  trace,          \* history of the current search: fetch, parse, append, pause
  markup,         \* is_soft_blocked: the html argument
  verdict,        \* is_soft_blocked: "pending" before the call, then its result
  soup,           \* _parse_page: the li elements of #b_results, in document order
  organic,        \* _parse_page: organicResults
  paid,           \* _parse_page: paidResults
  xpc,            \* _parse_page: "idle", "ready" (soup built) or "done"
  region,         \* _extract_related_queries: the li elements under #b_context .b_rs
  related,        \* _extract_related_queries: items
  strongs,        \* _extract_organic_results: the strong texts of one listing
  keywords        \* _extract_organic_results: emphasized_keywords of that listing

vars ==
  << entry, max_retries, queries, qi, all_results, export_calls, pc, pages, page,
     results, html, attempt, r_attempt, original_html, last_html, retval,
     error, ftrace, trace, markup, verdict, soup, organic, paid, xpc,
     region, related, strongs, keywords >>

\* the state of the fetch / run machine
runvars ==
  << entry, max_retries, queries, qi, all_results, export_calls, pc, pages, page,
     results, html, attempt, r_attempt, original_html, last_html, retval,
     error, ftrace, trace >>

\* the state used by the calls of is_soft_blocked and _parse_page on their own
purevars ==
  << markup, verdict, soup, organic, paid, xpc, region, related, strongs, keywords >>

\* no related-searches region and no strong texts are being processed
NoRegion == [items |-> << >>, first |-> 0]
SideIdle ==
  /\ region = NoRegion
  /\ related = << >>
  /\ strongs = << >>
  /\ keywords = << >>

\* events of ftrace.  A User-Agent draw (random.choice over DEFAULT_USER_AGENTS
\* in _fetch_page, random.randint(110, 125) in handle_soft_block) is recorded
\* as an event; the value drawn influences nothing and is not kept.
NoDelay == [num |-> 0, den |-> 1]
UaDraw(ph, n) ==
  [ev |-> "ua", phase |-> ph, attempt |-> n, fail |-> FALSE, text |-> << >>,
   delay |-> NoDelay, status |-> "n/a"]
Sleep(ph, n) ==
  [ev |-> "sleep", phase |-> ph, attempt |-> n, fail |-> FALSE, text |-> << >>,
   delay |-> compute_backoff(n), status |-> "n/a"]
GetFailed(ph, n) ==
  [ev |-> "get", phase |-> ph, attempt |-> n, fail |-> TRUE, text |-> << >>,
   delay |-> NoDelay, status |-> "n/a"]
\* a request of handle_soft_block that returned a body (resp.ok is never read there)
GetBody(ph, n, t) ==
  [ev |-> "get", phase |-> ph, attempt |-> n, fail |-> FALSE, text |-> t,
   delay |-> NoDelay, status |-> "n/a"]
\* a request of _fetch_page that returned resp: the body and resp.ok
GetResp(ph, n, resp) ==
  [ev |-> "get", phase |-> ph, attempt |-> n, fail |-> FALSE, text |-> resp.text,
   delay |-> NoDelay, status |-> IF resp.ok THEN "ok" ELSE "not_ok"]

\* events of trace
Ev(e, p) == [ev |-> e, page |-> p]

\* mutant: the echoed page index is zero-based
parse_page_zero(text, term, p) == [term |-> term, page |-> p - 1, html |-> NoneHtml]

\* BingSearchScraper._parse_page with include_html = False (the default):
\* the searchQuery echo and the html field of the page-level object
parse_page(text, term, p) == [term |-> term, page |-> p, html |-> NoneHtml]

\* ------------------------------------------------------------------------
\* Init
\* ------------------------------------------------------------------------
QueryLists ==
  UNION { [1..n -> 0..MaxPages] : n \in 1..MaxQueries }

\* no call of is_soft_blocked or _parse_page on its own is under way
PureIdle ==
  /\ markup = << >>
  /\ verdict = "pending"
  /\ soup = << >>
  /\ organic = << >>
  /\ paid = << >>
  /\ xpc = "idle"
  /\ SideIdle

InitMain ==
  /\ PureIdle
  /\ entry = "main"
  /\ max_retries \in 0..MaxRetries
  /\ queries \in QueryLists
  /\ qi = 0
  /\ all_results = << >>
  /\ export_calls = << >>
  /\ pc = "main_for"
  /\ pages = 0
  /\ page = 0
  /\ results = << >>
  /\ html = NoneHtml
  /\ attempt = 0
  /\ r_attempt = 0
  /\ original_html = NoneHtml
  /\ last_html = << >>
  /\ retval = NoneHtml
  /\ error = ""
  /\ ftrace = << >>
  /\ trace = << >>

\* a direct call of the public handle_soft_block(session, url, original_html)
InitHandle ==
  /\ PureIdle
  /\ entry = "handle_soft_block"
  /\ max_retries \in 0..MaxRetries
  /\ queries = << >>
  /\ qi = 0
  /\ all_results = << >>
  /\ export_calls = << >>
  /\ pc = "hsb_entry"
  /\ pages = 0
  /\ page = 0
  /\ results = << >>
  /\ html = NoneHtml
  /\ attempt = 0
  /\ r_attempt = 0
  /\ original_html \in {NoneHtml, Some(<< >>), Some(BlockB)}
                         \cup {Some(r.text) : r \in Responses}
  /\ last_html = << >>
  /\ retval = NoneHtml
  /\ error = ""
  /\ ftrace = << >>
  /\ trace = << >>

Init == InitMain \/ InitHandle


\* ------------------------------------------------------------------------
\* Returning markup to the caller
\* ------------------------------------------------------------------------
\* mutant: no pacing sleep after the append
SearchAccept_nopause(text) ==
  /\ html' = Some(text)
  /\ results' = Append(results, parse_page(text, qi, page))
  /\ trace' = trace \o << Ev("parse", page), Ev("append", page) >>
  /\ pc' = "search_for"
  /\ retval' = retval

\* search, lines 124-129: html = _fetch_page(url); page_result = _parse_page(html, meta);
\* results.append(page_result); time.sleep(random.uniform(0.8, 1.6))
SearchAccept(text) ==
  /\ html' = Some(text)
  /\ results' = Append(results, parse_page(text, qi, page))
  /\ trace' = trace \o << Ev("parse", page), Ev("append", page), Ev("pause", page) >>
  /\ pc' = "search_for"
  /\ retval' = retval

\* the markup leaves _fetch_page / handle_soft_block: to search when the run
\* came from main, to the caller of a direct handle_soft_block call otherwise
Deliver(text) ==
  IF entry = "main"
  THEN SearchAccept(text)
  ELSE /\ retval' = Some(text)
       /\ pc' = "done"
       /\ UNCHANGED << html, results, trace >>

\* mutant: the failure of a page is swallowed and the page loop goes on
Raise_skip(e) ==
  /\ pc' = IF entry = "main" THEN "search_for" ELSE "done"
  /\ error' = error

\* mutant: main catches the failure of a query and exports what it has
Raise_export_partial(e) ==
  /\ pc' = IF entry = "main" THEN "main_export" ELSE "raised"
  /\ error' = e

\* an exception leaves the entry point (nothing in search or main catches it)
Raise(e) ==
  /\ pc' = "raised"
  /\ error' = e

\* ------------------------------------------------------------------------
\* main (runner.py)
\* ------------------------------------------------------------------------
\* for q in queries: ... scraper.search(term, pages, ...)
MainNextQuery ==
  /\ pc = "main_for"
  /\ qi < Len(queries)
  /\ qi' = qi + 1
  /\ pages' = queries[qi + 1]
  /\ page' = 0
  /\ results' = << >>
  /\ trace' = << >>
  /\ pc' = "search_for"
  /\ UNCHANGED << entry, max_retries, queries, all_results, export_calls, html,
                  attempt, r_attempt, original_html, last_html, retval, error, ftrace >>
  /\ UNCHANGED purevars

\* the for loop over queries is exhausted
MainQueriesDone ==
  /\ pc = "main_for"
  /\ qi >= Len(queries)
  /\ pc' = "main_export"
  /\ UNCHANGED << entry, max_retries, queries, qi, all_results, export_calls, pages, page,
                  results, html, attempt, r_attempt, original_html, last_html,
                  retval, error, ftrace, trace >>
  /\ UNCHANGED purevars

\* if not all_results: logger.warning(...); return
MainNoResults ==
  /\ pc = "main_export"
  /\ all_results = << >>
  /\ pc' = "done"
  /\ UNCHANGED << entry, max_retries, queries, qi, all_results, export_calls, pages, page,
                  results, html, attempt, r_attempt, original_html, last_html,
                  retval, error, ftrace, trace >>
  /\ UNCHANGED purevars

\* export_all(results=all_results, ...)
MainExport ==
  /\ pc = "main_export"
  /\ all_results # << >>
  /\ export_calls' = Append(export_calls, all_results)
  /\ pc' = "done"
  /\ UNCHANGED << entry, max_retries, queries, qi, all_results, pages, page,
                  results, html, attempt, r_attempt, original_html, last_html,
                  retval, error, ftrace, trace >>
  /\ UNCHANGED purevars

\* ------------------------------------------------------------------------
\* BingSearchScraper.search
\* ------------------------------------------------------------------------
\* for page in range(1, pages + 1): ...; html = self._fetch_page(url), up to
\* the first session.get of _fetch_page (the User-Agent draw, attempt = 0)
SearchNextPage ==
  /\ pc = "search_for"
  /\ page < pages
  /\ page' = page + 1
  /\ attempt' = 0
  /\ ftrace' = << UaDraw("primary", 0) >>
  /\ trace' = Append(trace, Ev("fetch", page + 1))
  /\ pc' = "fetch_get"
  /\ UNCHANGED << entry, max_retries, queries, qi, all_results, export_calls, pages,
                  results, html, r_attempt, original_html, last_html, retval, error >>
  /\ UNCHANGED purevars

\* return results; main: all_results.extend(page_results)
SearchReturn ==
  /\ pc = "search_for"
  /\ page >= pages
  /\ all_results' = all_results \o results
  /\ pc' = "main_for"
  /\ UNCHANGED << entry, max_retries, queries, qi, export_calls, pages, page,
                  results, html, attempt, r_attempt, original_html, last_html,
                  retval, error, ftrace, trace >>
  /\ UNCHANGED purevars


\* ------------------------------------------------------------------------
\* BingSearchScraper._fetch_page: the primary loop
\* ------------------------------------------------------------------------
\* mutant: the ceiling test is off by one (attempt > max_retries)
AttemptsExhausted_gt(a) == a > max_retries

\* line 177: if attempt >= self.softblock_handler.max_retries: raise
AttemptsExhausted(a) == a >= max_retries

\* session.get raises requests.Timeout or requests.ConnectionError
FetchGetFail ==
  /\ pc = "fetch_get"
  /\ attempt' = attempt + 1
  /\ IF AttemptsExhausted(attempt + 1)
     THEN /\ ftrace' = Append(ftrace, GetFailed("primary", attempt + 1))
          /\ Raise("NetworkError")
     ELSE /\ ftrace' = ftrace \o << GetFailed("primary", attempt + 1),
                                    Sleep("primary", attempt + 1) >>
          /\ UNCHANGED << pc, error >>
  /\ UNCHANGED << entry, max_retries, queries, qi, all_results, export_calls, pages, page,
                  results, html, r_attempt, original_html, last_html, retval,
                  trace >>
  /\ UNCHANGED purevars

\* mutant: the status is tested first and a non-success status is an error
\* (resp.raise_for_status() before the block detection)
FetchGetResponse_status_first ==
  /\ pc = "fetch_get"
  /\ \E resp \in Responses :
       /\ attempt' = attempt + 1
       /\ ftrace' = Append(ftrace, GetResp("primary", attempt + 1, resp))
       /\ IF ~resp.ok
          THEN /\ Raise("NetworkError")
               /\ UNCHANGED << original_html, html, results, trace, retval >>
          ELSE /\ error' = error
               /\ IF is_soft_blocked(resp.text)
                  THEN /\ original_html' = Some(resp.text)
                       /\ pc' = "hsb_entry"
                       /\ UNCHANGED << html, results, trace, retval >>
                  ELSE /\ Deliver(resp.text)
                       /\ UNCHANGED original_html
  /\ UNCHANGED << entry, max_retries, queries, qi, all_results, export_calls, pages, page,
                  r_attempt, last_html >>
  /\ UNCHANGED purevars

\* mutant: the body is returned without the block detection
FetchGetResponse_no_detection ==
  /\ pc = "fetch_get"
  /\ \E resp \in Responses :
       /\ attempt' = attempt + 1
       /\ ftrace' = Append(ftrace, GetResp("primary", attempt + 1, resp))
       /\ Deliver(resp.text)
       /\ UNCHANGED original_html
  /\ UNCHANGED << entry, max_retries, queries, qi, all_results, export_calls, pages, page,
                  r_attempt, last_html, error >>
  /\ UNCHANGED purevars

\* session.get returns a response: block detection, then return of the body
\* (resp.ok only selects a log line)
FetchGetResponse ==
  /\ pc = "fetch_get"
  /\ \E resp \in Responses :
       /\ attempt' = attempt + 1
       /\ ftrace' = Append(ftrace, GetResp("primary", attempt + 1, resp))
       /\ IF is_soft_blocked(resp.text)
          THEN /\ original_html' = Some(resp.text)
               /\ pc' = "hsb_entry"
               /\ UNCHANGED << html, results, trace, retval >>
          ELSE /\ Deliver(resp.text)
               /\ UNCHANGED original_html
  /\ UNCHANGED << entry, max_retries, queries, qi, all_results, export_calls, pages, page,
                  r_attempt, last_html, error >>
  /\ UNCHANGED purevars

\* ------------------------------------------------------------------------
\* SoftBlockHandler.handle_soft_block
\* ------------------------------------------------------------------------
\* mutant: the recovery loop goes on counting from the attempts of the primary loop
HandleSoftBlockEntry_carry ==
  /\ pc = "hsb_entry"
  /\ IF original_html.some /\ ~is_soft_blocked(original_html.text)
     THEN /\ Deliver(original_html.text)
          /\ UNCHANGED << r_attempt, last_html >>
     ELSE /\ r_attempt' = attempt
          /\ last_html' = original_html.text
          /\ pc' = "hsb_while"
          /\ UNCHANGED << html, results, trace, retval >>
  /\ UNCHANGED << entry, max_retries, queries, qi, all_results, export_calls, pages, page,
                  attempt, original_html, error, ftrace >>
  /\ UNCHANGED purevars

\* lines 59-63: the short-circuit on markup that is not blocked, else
\* attempt = 0; last_html = original_html or ""
HandleSoftBlockEntry ==
  /\ pc = "hsb_entry"
  /\ IF original_html.some /\ ~is_soft_blocked(original_html.text)
     THEN /\ Deliver(original_html.text)
          /\ UNCHANGED << r_attempt, last_html >>
     ELSE /\ r_attempt' = 0
          /\ last_html' = original_html.text
          /\ pc' = "hsb_while"
          /\ UNCHANGED << html, results, trace, retval >>
  /\ UNCHANGED << entry, max_retries, queries, qi, all_results, export_calls, pages, page,
                  attempt, original_html, error, ftrace >>
  /\ UNCHANGED purevars

\* line 65: while attempt < self.max_retries
RecoveryMayContinue(a) == a < max_retries

\* mutant: the network failure is not caught inside the loop
RecoverAttemptFail_uncaught ==
  /\ pc = "hsb_while"
  /\ RecoveryMayContinue(r_attempt)
  /\ r_attempt' = r_attempt + 1
  /\ ftrace' = ftrace \o << Sleep("recovery", r_attempt + 1),
                            UaDraw("recovery", r_attempt + 1),
                            GetFailed("recovery", r_attempt + 1) >>
  /\ Raise("NetworkError")
  /\ UNCHANGED << entry, max_retries, queries, qi, all_results, export_calls, pages,
                  page, results, html, attempt, original_html, last_html, retval,
                  trace >>
  /\ UNCHANGED purevars

\* one pass of the loop in which session.get raises Timeout / ConnectionError:
\* sleep, fresh User-Agent, request, continue
RecoverAttemptFail ==
  /\ pc = "hsb_while"
  /\ RecoveryMayContinue(r_attempt)
  /\ r_attempt' = r_attempt + 1
  /\ ftrace' = ftrace \o << Sleep("recovery", r_attempt + 1),
                            UaDraw("recovery", r_attempt + 1),
                            GetFailed("recovery", r_attempt + 1) >>
  /\ UNCHANGED << entry, max_retries, queries, qi, all_results, export_calls, pc, pages,
                  page, results, html, attempt, original_html, last_html, retval,
                  error, trace >>
  /\ UNCHANGED purevars

\* mutant: the loop returns the markup it was given instead of the new body
RecoverAttemptResponse_stale ==
  /\ pc = "hsb_while"
  /\ RecoveryMayContinue(r_attempt)
  /\ \E resp \in Responses :
       /\ r_attempt' = r_attempt + 1
       /\ ftrace' = ftrace \o << Sleep("recovery", r_attempt + 1),
                                 UaDraw("recovery", r_attempt + 1),
                                 GetBody("recovery", r_attempt + 1, resp.text) >>
       /\ last_html' = resp.text
       /\ IF ~is_soft_blocked(resp.text)
          THEN Deliver(original_html.text)
          ELSE UNCHANGED << pc, html, results, trace, retval >>
  /\ UNCHANGED << entry, max_retries, queries, qi, all_results, export_calls, pages, page,
                  attempt, original_html, error >>
  /\ UNCHANGED purevars

\* one pass of the loop in which session.get returns a response
RecoverAttemptResponse ==
  /\ pc = "hsb_while"
  /\ RecoveryMayContinue(r_attempt)
  /\ \E resp \in Responses :
       /\ r_attempt' = r_attempt + 1
       /\ ftrace' = ftrace \o << Sleep("recovery", r_attempt + 1),
                                 UaDraw("recovery", r_attempt + 1),
                                 GetBody("recovery", r_attempt + 1, resp.text) >>
       /\ last_html' = resp.text
       /\ IF ~is_soft_blocked(resp.text)
          THEN Deliver(resp.text)
          ELSE UNCHANGED << pc, html, results, trace, retval >>
  /\ UNCHANGED << entry, max_retries, queries, qi, all_results, export_calls, pages, page,
                  attempt, original_html, error >>
  /\ UNCHANGED purevars

\* the loop ends without a return: raise RuntimeError
RecoverExhausted ==
  /\ pc = "hsb_while"
  /\ ~RecoveryMayContinue(r_attempt)
  /\ Raise("SoftBlockUnresolved")
  /\ UNCHANGED << entry, max_retries, queries, qi, all_results, export_calls, pages, page,
                  results, html, attempt, r_attempt, original_html, last_html,
                  retval, ftrace, trace >>
  /\ UNCHANGED purevars

\* ------------------------------------------------------------------------
\* Specification
\* ------------------------------------------------------------------------
Next ==
  \/ MainNextQuery
  \/ MainQueriesDone
  \/ MainNoResults
  \/ MainExport
  \/ SearchNextPage
  \/ SearchReturn
  \/ FetchGetFail
  \/ FetchGetResponse
  \/ HandleSoftBlockEntry
  \/ RecoverAttemptFail
  \/ RecoverAttemptResponse
  \/ RecoverExhausted

Spec == Init /\ [][Next]_vars

TypeOK ==
  /\ entry \in {"main", "handle_soft_block", "is_soft_blocked", "_parse_page",
                "_extract_related_queries", "_extract_organic_results"}
  /\ max_retries \in 0..MaxRetries
  /\ pc \in {"main_for", "main_export", "search_for", "fetch_get", "hsb_entry",
             "hsb_while", "done", "raised", "idle"}
  /\ error \in {"", "NetworkError", "SoftBlockUnresolved"}
  /\ page \in 0..MaxPages
  /\ attempt \in 0..(MaxRetries + 1)
  /\ r_attempt \in 0..MaxRetries


\* ------------------------------------------------------------------------
\* Reading the histories
\* ------------------------------------------------------------------------
IsGet(e, ph) == e.ev = "get" /\ e.phase = ph
IsSleep(e, ph) == e.ev = "sleep" /\ e.phase = ph
NumGets(ph) == Len(SelectSeq(ftrace, LAMBDA e : IsGet(e, ph)))
NumSleeps(ph) == Len(SelectSeq(ftrace, LAMBDA e : IsSleep(e, ph)))
NumUaDraws == Len(SelectSeq(ftrace, LAMBDA e : e.ev = "ua"))
NumRequests == Len(SelectSeq(ftrace, LAMBDA e : e.ev = "get"))
UnblockedBody(e) == e.ev = "get" /\ ~e.fail /\ ~is_soft_blocked(e.text)
\* handle_soft_block is running
InRecovery == pc \in {"hsb_entry", "hsb_while"}
\* the markup most recently handed back to the caller of the entry point
Returned == IF entry = "main" THEN html ELSE retval

\* ------------------------------------------------------------------------
\* C1  Primary fetch loop, retry ceiling R >= 1: a request that ends in a
\* timeout or connection failure either is the R-th attempt, and then the
\* failure propagates as NetworkError with no further request, or is followed
\* by exactly one backoff sleep compute_backoff(attempt) and the re-issue of
\* the request.  A fetch whose every attempt fails issues R requests and R-1
\* sleeps; attempt 1 failing and attempt 2 returning a non-blocked body gives
\* that body after exactly one sleep.
\* ------------------------------------------------------------------------
C1_EachFailureHandled ==
  \A i \in 1..Len(ftrace) :
    (IsGet(ftrace[i], "primary") /\ ftrace[i].fail) =>
      IF ftrace[i].attempt >= max_retries
      THEN /\ i = Len(ftrace)
           /\ pc = "raised"
           /\ error = "NetworkError"
      ELSE /\ i < Len(ftrace)
           /\ ftrace[i + 1] = Sleep("primary", ftrace[i].attempt)
           /\ IF i + 1 = Len(ftrace)
              THEN pc = "fetch_get" /\ error = ""
              ELSE /\ IsGet(ftrace[i + 2], "primary")
                   /\ ftrace[i + 2].attempt = ftrace[i].attempt + 1

C1_AllFail ==
  (error = "NetworkError") =>
    /\ NumGets("primary") = max_retries
    /\ NumSleeps("primary") = max_retries - 1
    /\ NumRequests = max_retries
    /\ \A i \in 1..Len(ftrace) : ftrace[i].ev = "get" => ftrace[i].fail

C1_ScenarioD ==
  (/\ Len(ftrace) >= 4
   /\ ftrace[2] = GetFailed("primary", 1)
   /\ IsGet(ftrace[4], "primary")
   /\ UnblockedBody(ftrace[4])) =>
    /\ Len(ftrace) = 4
    /\ ftrace[3] = Sleep("primary", 1)
    /\ NumSleeps("primary") + NumSleeps("recovery") = 1
    /\ html = Some(ftrace[4].text)
    /\ error = ""
    /\ pc # "fetch_get"

C1_RetryOnNetworkFailure ==
  (entry = "main" /\ max_retries >= 1) =>
    (C1_EachFailureHandled /\ C1_AllFail /\ C1_ScenarioD)

\* every attempt of a fetch with ceiling 2 failed: two requests, one sleep
C1_Witness ==
  /\ entry = "main"
  /\ max_retries = 2
  /\ pc = "raised"
  /\ error = "NetworkError"
  /\ ftrace = << UaDraw("primary", 0), GetFailed("primary", 1), Sleep("primary", 1),
                 GetFailed("primary", 2) >>

\* ------------------------------------------------------------------------
\* C2  Block recovery returns the body of the first recovery attempt whose
\* body is not blocked, issues no request after it, and the fetch returns
\* exactly that body without SoftBlockUnresolved; markup that is already
\* non-blocked is returned at once, with no request and no sleep.
\* ------------------------------------------------------------------------
C2_FirstUnblockedReturned ==
  \A i \in 1..Len(ftrace) :
    (IsGet(ftrace[i], "recovery") /\ UnblockedBody(ftrace[i])) =>
      /\ i = Len(ftrace)
      /\ ~InRecovery
      /\ pc # "raised"
      /\ error = ""
      /\ Returned = Some(ftrace[i].text)
      /\ \A j \in 1..(i - 1) : IsGet(ftrace[j], "recovery") => ~UnblockedBody(ftrace[j])

C2_ShortCircuit ==
  (/\ entry = "handle_soft_block"
   /\ original_html.some
   /\ ~is_soft_blocked(original_html.text)) =>
    /\ ftrace = << >>
    /\ error = ""
    /\ pc \in {"hsb_entry", "done"}
    /\ pc = "done" => retval = original_html

C2_RecoveryReturnsFirstUnblocked == C2_FirstUnblockedReturned /\ C2_ShortCircuit

\* scenario E: first response blocked, recovery attempt 1 blocked, attempt 2 not
C2_Witness ==
  /\ entry = "main"
  /\ Len(ftrace) = 8
  /\ IsGet(ftrace[2], "primary") /\ ~ftrace[2].fail /\ is_soft_blocked(ftrace[2].text)
  /\ IsGet(ftrace[5], "recovery") /\ ~ftrace[5].fail /\ is_soft_blocked(ftrace[5].text)
  /\ IsGet(ftrace[8], "recovery") /\ UnblockedBody(ftrace[8])
  /\ html = Some(ftrace[8].text)
  /\ error = ""


\* ------------------------------------------------------------------------
\* C3  Block recovery with ceiling R in which every attempt returns a blocked
\* body or fails on the network: exactly R recovery requests are issued and
\* the call fails with SoftBlockUnresolved.  A network failure in a recovery
\* attempt uses up exactly one of the R attempts, does not end the loop before
\* the ceiling and never surfaces as NetworkError.
\* ------------------------------------------------------------------------
\* handle_soft_block was entered with markup it does not return at once
RecoveryLoopEntered ==
  IF entry = "main"
  THEN \E i \in 1..Len(ftrace) :
         IsGet(ftrace[i], "primary") /\ ~ftrace[i].fail /\ is_soft_blocked(ftrace[i].text)
  ELSE ~(original_html.some /\ ~is_soft_blocked(original_html.text))

NoRecoveryBodyUnblocked ==
  \A i \in 1..Len(ftrace) : IsGet(ftrace[i], "recovery") => ~UnblockedBody(ftrace[i])

\* the recovery requests in order
RecoveryGets == SelectSeq(ftrace, LAMBDA e : IsGet(e, "recovery"))

C3_ExhaustionFails ==
  (RecoveryLoopEntered /\ ~InRecovery /\ NoRecoveryBodyUnblocked) =>
    /\ pc = "raised"
    /\ error = "SoftBlockUnresolved"
    /\ NumGets("recovery") = max_retries

C3_OnlyExhaustionFails ==
  (error = "SoftBlockUnresolved") =>
    /\ NumGets("recovery") = max_retries
    /\ NoRecoveryBodyUnblocked

C3_FailureConsumesOneAttempt ==
  /\ \A k \in 1..Len(RecoveryGets) : RecoveryGets[k].attempt = k
  /\ Len(RecoveryGets) <= max_retries
  /\ \A i \in 1..Len(ftrace) :
       (IsGet(ftrace[i], "recovery") /\ ftrace[i].fail) =>
         /\ error # "NetworkError"
         /\ IF ftrace[i].attempt < max_retries
            THEN IF i = Len(ftrace)
                 THEN pc = "hsb_while" /\ error = ""
                 ELSE ftrace[i + 1] = Sleep("recovery", ftrace[i].attempt + 1)
            ELSE /\ i = Len(ftrace)
                 /\ \/ pc = "hsb_while" /\ error = ""
                    \/ pc = "raised" /\ error = "SoftBlockUnresolved"

C3_RecoveryExhaustion ==
  C3_ExhaustionFails /\ C3_OnlyExhaustionFails /\ C3_FailureConsumesOneAttempt

\* ceiling 2: a recovery attempt that failed on the network, then a blocked one
C3_Witness ==
  /\ entry = "main"
  /\ max_retries = 2
  /\ error = "SoftBlockUnresolved"
  /\ Len(RecoveryGets) = 2
  /\ RecoveryGets[1].fail
  /\ ~RecoveryGets[2].fail /\ is_soft_blocked(RecoveryGets[2].text)

\* ------------------------------------------------------------------------
\* C4  search over pages 1..pages: when the fetch of page k fails, the error
\* leaves search and main, nothing runs afterwards (no request for a later
\* page), and no page is skipped: a fetch of page p+1 is only ever issued
\* after page p was fetched, parsed and appended.
\* ------------------------------------------------------------------------
FetchedPages == SelectSeq(trace, LAMBDA e : e.ev = "fetch")

C4_FailureState ==
  (entry = "main" /\ error # "") =>
    /\ pc = "raised"
    /\ error \in {"NetworkError", "SoftBlockUnresolved"}
    /\ trace # << >>
    /\ trace[Len(trace)] = Ev("fetch", page)
    /\ Len(FetchedPages) = page
    /\ Len(results) = page - 1
    /\ export_calls = << >>

C4_NoSkip ==
  entry = "main" =>
    /\ \A k \in 1..Len(FetchedPages) : FetchedPages[k].page = k
    /\ \A i \in 1..Len(trace) :
         (trace[i].ev = "fetch" /\ i < Len(trace)) => trace[i + 1] = Ev("parse", trace[i].page)
    /\ (pc \in {"fetch_get", "hsb_entry", "hsb_while", "raised"}) <=>
         (trace # << >> /\ trace[Len(trace)].ev = "fetch")

C4_FailureAbortsQuery ==
  /\ [](C4_FailureState /\ C4_NoSkip)
  /\ [][pc # "raised"]_vars

\* the second page of a query failed after the first was collected
C4_Witness ==
  /\ entry = "main"
  /\ pc = "raised"
  /\ pages = 2
  /\ page = 2
  /\ Len(results) = 1
  /\ qi = 1
  /\ Len(queries) = 2
  /\ queries[2] > 0

\* ------------------------------------------------------------------------
\* C5  When every page fetch succeeds, search(term, pages) returns exactly
\* `pages` page records, the i-th echoing page index i; fetches are issued in
\* increasing page order 1..pages and the extraction of page i lies after the
\* fetch of page i and before the fetch of page i+1.
\* ------------------------------------------------------------------------
\* position in trace of the event e for page p (0 if absent)
PosOf(e, p) ==
  IF \E i \in 1..Len(trace) : trace[i] = Ev(e, p)
  THEN CHOOSE i \in 1..Len(trace) : trace[i] = Ev(e, p)
  ELSE 0

\* search has returned for the current query
SearchReturned == entry = "main" /\ qi >= 1 /\ pc \in {"main_for", "main_export", "done"}

C5_Returned ==
  (SearchReturned \/ (pc = "search_for" /\ page >= pages)) =>
    /\ Len(results) = pages
    /\ \A i \in 1..Len(results) : results[i].page = i /\ results[i].term = qi
    /\ Len(FetchedPages) = pages

C5_Order ==
  entry = "main" =>
    /\ \A i, j \in 1..Len(trace) :
         (i < j /\ trace[i].ev = "fetch" /\ trace[j].ev = "fetch") =>
            trace[j].page > trace[i].page
    /\ \A p \in 1..Len(results) :
         /\ PosOf("fetch", p) > 0
         /\ PosOf("parse", p) > PosOf("fetch", p)
         /\ PosOf("fetch", p + 1) > 0 => PosOf("parse", p) < PosOf("fetch", p + 1)
    /\ \A i \in 1..Len(trace) :
         trace[i].ev = "parse" =>
           Cardinality({j \in 1..Len(trace) : trace[j] = trace[i]}) = 1

C5_PagesInOrder == C5_Returned /\ C5_Order

\* a two-page query has returned its two records
C5_Witness ==
  /\ SearchReturned
  /\ pages = 2
  /\ Len(results) = 2
  /\ results[2].page = 2


\* ------------------------------------------------------------------------
\* C6  A whole run of main in which no page is fetched successfully ends
\* normally: nothing is exported and the outcome is not an error.
\* ------------------------------------------------------------------------
RunEnded == entry = "main" /\ pc \in {"done", "raised"}
NoPageFetched == all_results = << >> /\ results = << >>

C6_EmptyRunIsNotAnError ==
  (RunEnded /\ NoPageFetched) =>
    /\ pc = "done"
    /\ error = ""
    /\ export_calls = << >>

\* ------------------------------------------------------------------------
\* C9  Every outbound request of a fetch, re-issues of the primary loop and
\* of block recovery included, is preceded by its own User-Agent draw: a
\* fetch makes as many draws as it issues requests.
\* ------------------------------------------------------------------------
\* _fetch_page is not running
FetchOver == entry = "main" /\ pc \notin {"fetch_get", "hsb_entry", "hsb_while"}

C9_OneDrawPerRequest == FetchOver => NumUaDraws = NumRequests

\* ------------------------------------------------------------------------
\* C10  Within one search, between the fetch of page i and the fetch of page
\* i+1 there is exactly one pacing pause, taken after the record of page i
\* was appended.
\* ------------------------------------------------------------------------
\* number of pauses recorded in trace strictly between positions a and b
PausesBetween(a, b) ==
  Cardinality({k \in (a + 1)..(b - 1) : trace[k].ev = "pause"})

C10_OnePauseBetweenFetches ==
  entry = "main" =>
    \A i, j \in 1..Len(trace) :
      (/\ i < j
       /\ trace[i].ev = "fetch"
       /\ trace[j].ev = "fetch"
       /\ trace[j].page = trace[i].page + 1) =>
        /\ PausesBetween(i, j) = 1
        /\ trace[j - 1] = Ev("pause", trace[i].page)
        /\ trace[j - 2] = Ev("append", trace[i].page)
        /\ j - 2 > i

\* the second page of a query is being fetched
C10_Witness ==
  /\ entry = "main"
  /\ pc = "fetch_get"
  /\ page = 2
  /\ trace = << Ev("fetch", 1), Ev("parse", 1), Ev("append", 1), Ev("pause", 1),
                Ev("fetch", 2) >>


\* ========================================================================
\* is_soft_blocked called on its own, on markup put together from fragments
\* ========================================================================
\* the fetch / run machine is not in use
RunIdle ==
  /\ max_retries = 0
  /\ queries = << >>
  /\ qi = 0
  /\ all_results = << >>
  /\ export_calls = << >>
  /\ pc = "idle"
  /\ pages = 0
  /\ page = 0
  /\ results = << >>
  /\ html = NoneHtml
  /\ attempt = 0
  /\ r_attempt = 0
  /\ original_html = NoneHtml
  /\ last_html = << >>
  /\ retval = NoneHtml
  /\ error = ""
  /\ ftrace = << >>
  /\ trace = << >>

\* fragments of markup: hint phrases whole and in parts, in several letter cases
Fragments ==
  { <<"u","n","u","s","u","a","l"," ">>,
    <<"U","N","U","S","U","A","L"," ">>,
    <<"t","r","a","f","f","i","c">>,
    <<"T","r","a","f","f","i","c","!">>,
    <<"t">>,
    <<"<","p",">">>,
    <<"a","r","e"," ","y","o","u"," ","a"," ","r","o","b","o">>,
    <<"A","r","e"," ","Y","o","u"," ","A"," ","R","o","b","o","t">>,
    <<"p","l","e","a","s","e"," ","t","r","y"," ","a","g","a","i","n"," ",
      "l","a","t","e","r">>,
    <<"P","L","E","A","S","E"," ","T","R","Y"," ","A","G","A","I","N">> }

RECURSIVE Flatten(_)
Flatten(parts) ==
  IF parts = << >> THEN << >> ELSE Head(parts) \o Flatten(Tail(parts))

Markups ==
  { Flatten(parts) : parts \in UNION { [1..n -> Fragments] : n \in 0..MaxChunks } }

InitBlocked ==
  /\ RunIdle
  /\ entry = "is_soft_blocked"
  /\ markup \in Markups
  /\ verdict = "pending"
  /\ soup = << >>
  /\ organic = << >>
  /\ paid = << >>
  /\ xpc = "idle"
  /\ SideIdle

\* the call is_soft_blocked(markup)
Detect ==
  /\ entry = "is_soft_blocked"
  /\ verdict = "pending"
  /\ verdict' = IF is_soft_blocked(markup) THEN "blocked" ELSE "clear"
  /\ UNCHANGED << markup, soup, organic, paid, xpc, region, related, strongs, keywords >>
  /\ UNCHANGED runvars

NextBlocked == Detect

SpecBlocked == InitBlocked /\ [][NextBlocked]_vars

\* two characters are the same letter, whatever the case of each
SameIgnoringCase(a, b) ==
  \/ a = b
  \/ \E n \in 1..Len(UpperChars) :
       /\ a \in {UpperChars[n], LowerChars[n]}
       /\ b \in {UpperChars[n], LowerChars[n]}

\* the markup has the phrase as a substring, letter case ignored
HasPhraseAnyCase(m, phrase) ==
  \E i \in 0..(Len(m) - Len(phrase)) :
    \A j \in 1..Len(phrase) : SameIgnoringCase(m[i + j], phrase[j])

HasSomePhraseAnyCase(m) ==
  \E k \in 1..Len(SOFT_BLOCK_HINTS) : HasPhraseAnyCase(m, SOFT_BLOCK_HINTS[k])

\* ------------------------------------------------------------------------
\* C8  is_soft_blocked(markup) is true exactly when the markup contains at
\* least one of the block-indicator phrases as a substring, letter case
\* ignored.
\* ------------------------------------------------------------------------
C8_BlockedIffPhrasePresent ==
  (verdict # "pending") =>
    ((verdict = "blocked") <=> HasSomePhraseAnyCase(markup))

\* a phrase present only in upper and mixed case, across two fragments, is detected
C8_Witness ==
  /\ verdict = "blocked"
  /\ markup = <<"U","N","U","S","U","A","L"," ","T","r","a","f","f","i","c","!">>


\* ========================================================================
\* _parse_page called on its own: organic and paid listings
\* ========================================================================
\* An li element of #b_results: its class, its heading (h2) and the first
\* link of the heading.  heading is "none" (no h2), "h2" (an h2 without an
\* a element) or "a"; href is "None" (no href attribute), "" or a url.
Classes == {"b_algo", "b_ad", "b_adresult", "b_ans"}
Urls == {"https://a.example/", "https://b.example/"}

ListingNodes ==
  { [cls |-> c, heading |-> h, href |-> "None"] : c \in Classes, h \in {"none", "h2"} }
  \cup
  { [cls |-> c, heading |-> "a", href |-> u] : c \in Classes, u \in {"None", ""} \cup Urls }

\* soup.select("#b_results li.<class>") for a set of classes, in document order
select(nodes, classes) == SelectSeq(nodes, LAMBDA li : li.cls \in classes)

\* lines 258-260 / 305-307: title_el = li.find("h2"); link = title_el.find("a")
\* if title_el else None; the node is skipped if not link or not link.get("href")
skipped(li) == li.heading # "a" \/ li.href \in {"None", ""}

\* mutant: the position counter advances before the skip test
RECURSIVE organic_loop_counts_skipped(_, _, _)
organic_loop_counts_skipped(listings, position, items) ==
  IF listings = << >>
  THEN items
  ELSE LET li == Head(listings)
       IN  IF skipped(li)
           THEN organic_loop_counts_skipped(Tail(listings), position + 1, items)
           ELSE organic_loop_counts_skipped(
                  Tail(listings), position + 1,
                  Append(items, [url |-> li.href, type |-> "organic",
                                 position |-> position + 1]))

\* _extract_organic_results, the for loop (lines 257-293) from a given
\* position counter and item list
RECURSIVE organic_loop(_, _, _)
organic_loop(listings, position, items) ==
  IF listings = << >>
  THEN items
  ELSE LET li == Head(listings)
       IN  IF skipped(li)
           THEN organic_loop(Tail(listings), position, items)
           ELSE organic_loop(
                  Tail(listings), position + 1,
                  Append(items, [url |-> li.href, type |-> "organic",
                                 position |-> position + 1]))

\* _extract_organic_results
extract_organic_results(nodes) == organic_loop(select(nodes, {"b_algo"}), 0, << >>)

\* _extract_paid_results, the for loop (lines 304-329)
RECURSIVE paid_loop(_, _, _)
paid_loop(listings, position, items) ==
  IF listings = << >>
  THEN items
  ELSE LET li == Head(listings)
       IN  IF skipped(li)
           THEN paid_loop(Tail(listings), position, items)
           ELSE paid_loop(
                  Tail(listings), position + 1,
                  Append(items, [url |-> li.href, type |-> "ad",
                                 position |-> position + 1]))

\* _extract_paid_results
extract_paid_results(nodes) == paid_loop(select(nodes, {"b_ad", "b_adresult"}), 0, << >>)

InitExtract ==
  /\ RunIdle
  /\ entry = "_parse_page"
  /\ markup = << >>
  /\ verdict = "pending"
  /\ soup \in UNION { [1..n -> ListingNodes] : n \in 0..MaxNodes }
  /\ organic = << >>
  /\ paid = << >>
  /\ xpc = "ready"
  /\ SideIdle

\* _parse_page, lines 206-207 and 223-224
ParsePage ==
  /\ entry = "_parse_page"
  /\ xpc = "ready"
  /\ organic' = extract_organic_results(soup)
  /\ paid' = extract_paid_results(soup)
  /\ xpc' = "done"
  /\ UNCHANGED << markup, verdict, soup, region, related, strongs, keywords >>
  /\ UNCHANGED runvars

NextExtract == ParsePage

SpecExtract == InitExtract /\ [][NextExtract]_vars

\* the nodes of the given classes that have a heading link with a non-empty href
Qualifying(classes) ==
  SelectSeq(soup, LAMBDA li : li.cls \in classes /\ li.heading = "a" /\ li.href \in Urls)

\* ------------------------------------------------------------------------
\* C7  In every page record the positions of the organic list are exactly
\* 1..n in list order and those of the paid list exactly 1..m, each list
\* numbered on its own; a listing node without a heading link with a
\* non-empty href is skipped and uses up no position (three organic nodes,
\* the second without heading link: 2 items, positions 1 and 2).
\* ------------------------------------------------------------------------
C7_Contiguous(items, classes) ==
  /\ Len(items) = Len(Qualifying(classes))
  /\ \A k \in 1..Len(items) :
       /\ items[k].position = k
       /\ items[k].url = Qualifying(classes)[k].href

C7_PositionsContiguous ==
  (xpc = "done") =>
    /\ C7_Contiguous(organic, {"b_algo"})
    /\ C7_Contiguous(paid, {"b_ad", "b_adresult"})

\* scenario C: three organic nodes, the second with an h2 but no link
C7_Witness ==
  /\ xpc = "done"
  /\ Len(soup) = 3
  /\ \A i \in 1..3 : soup[i].cls = "b_algo"
  /\ ~skipped(soup[1]) /\ soup[2].heading = "h2" /\ ~skipped(soup[3])
  /\ Len(organic) = 2
  /\ organic[1].position = 1
  /\ organic[2].position = 2


\* ------------------------------------------------------------------------
\* C11  A response of the primary loop whose body is not detected as blocked
\* is returned by the fetch unchanged, whatever its status (success or not),
\* with no retry, no backoff sleep after it and no error; block detection
\* comes before the status, so a blocked body with any status goes to block
\* recovery.
\* ------------------------------------------------------------------------
C11_UnblockedReturnedAsIs ==
  \A i \in 1..Len(ftrace) :
    (IsGet(ftrace[i], "primary") /\ ~ftrace[i].fail /\ ~is_soft_blocked(ftrace[i].text)) =>
      /\ ftrace[i].status \in {"ok", "not_ok"}
      /\ i = Len(ftrace)
      /\ html = Some(ftrace[i].text)
      /\ error = ""
      /\ pc \notin {"fetch_get", "hsb_entry", "hsb_while", "raised"}
      /\ NumGets("recovery") = 0
      /\ NumSleeps("recovery") = 0

C11_BlockedGoesToRecovery ==
  \A i \in 1..Len(ftrace) :
    (IsGet(ftrace[i], "primary") /\ ~ftrace[i].fail /\ is_soft_blocked(ftrace[i].text)) =>
      /\ ftrace[i].status \in {"ok", "not_ok"}
      /\ original_html = Some(ftrace[i].text)
      /\ error # "NetworkError"
      /\ html # Some(ftrace[i].text)
      /\ IF i = Len(ftrace)
         THEN \/ pc = "hsb_entry"
              \/ pc = "hsb_while" /\ r_attempt = 0
              \/ pc = "raised" /\ error = "SoftBlockUnresolved" /\ max_retries = 0
         ELSE ftrace[i + 1] = Sleep("recovery", 1)

C11_StatusDoesNotDecide ==
  entry = "main" => (C11_UnblockedReturnedAsIs /\ C11_BlockedGoesToRecovery)

\* a non-blocked body with a non-success status was returned by the first attempt
C11_Witness ==
  /\ entry = "main"
  /\ Len(ftrace) = 2
  /\ IsGet(ftrace[2], "primary")
  /\ ftrace[2].status = "not_ok"
  /\ ~is_soft_blocked(ftrace[2].text)
  /\ html = Some(ftrace[2].text)
  /\ pc = "search_for"

\* a blocked body with a non-success status is in block recovery
C11_WitnessBlocked ==
  /\ entry = "main"
  /\ Len(ftrace) = 2
  /\ ftrace[2].status = "not_ok"
  /\ is_soft_blocked(ftrace[2].text)
  /\ pc = "hsb_while"


\* ========================================================================
\* _extract_related_queries called on its own
\* ========================================================================
\* An a element inside a list item: its href attribute ("None" if it has
\* none) and its visible text as get_text(" ", strip=True) gives it.
RelatedLinks ==
  { [href |-> "None", text |-> "bing maps"],
    [href |-> "/search?q=bing+maps", text |-> "bing maps"],
    [href |-> "/search?q=bing+news", text |-> ""] }

\* a list item: its a elements in document order
RelatedListItems == UNION { [1..n -> RelatedLinks] : n \in 0..MaxLinks }

\* the li elements under the .b_rs containers of #b_context in document
\* order; the first `first` of them lie in the first container
RelatedRegions ==
  { [items |-> its, first |-> f] :
      its \in UNION { [1..n -> RelatedListItems] : n \in 0..MaxItems },
      f \in 0..MaxItems }

\* lines 371-379: the .b_rs container precedes its list items in the result
\* of select, so related_section[0] is the first container and li_items are
\* the li elements inside it
li_items(reg) == SubSeq(reg.items, 1, reg.first)

\* mutant: li.find("a"), the first link whether or not it has an href
find_a_any(li) ==
  IF li = << >> THEN << >> ELSE << li[1] >>

\* li.find("a", href=True): the first a element that has an href attribute,
\* as a sequence of zero or one element
find_a_href(li) ==
  LET with_href == SelectSeq(li, LAMBDA a : a.href # "None")
  IN  IF with_href = << >> THEN << >> ELSE << with_href[1] >>

\* _extract_related_queries, the for loop (lines 381-388)
RECURSIVE related_loop(_, _)
related_loop(lis, items) ==
  IF lis = << >>
  THEN items
  ELSE LET link == find_a_href(Head(lis))
       IN  IF link = << >>
           THEN related_loop(Tail(lis), items)
           ELSE IF link[1].text # ""
                THEN related_loop(Tail(lis),
                                  Append(items, [title |-> link[1].text,
                                                 url |-> link[1].href]))
                ELSE related_loop(Tail(lis), items)

\* _extract_related_queries
extract_related_queries(reg) == related_loop(li_items(reg), << >>)

InitRelated ==
  /\ RunIdle
  /\ entry = "_extract_related_queries"
  /\ markup = << >>
  /\ verdict = "pending"
  /\ soup = << >>
  /\ organic = << >>
  /\ paid = << >>
  /\ xpc = "ready"
  /\ region \in {r \in RelatedRegions : r.first <= Len(r.items)}
  /\ related = << >>
  /\ strongs = << >>
  /\ keywords = << >>

\* the call _extract_related_queries(soup)
ExtractRelated ==
  /\ entry = "_extract_related_queries"
  /\ xpc = "ready"
  /\ related' = extract_related_queries(region)
  /\ xpc' = "done"
  /\ UNCHANGED << markup, verdict, soup, organic, paid, region, strongs, keywords >>
  /\ UNCHANGED runvars

NextRelated == ExtractRelated

SpecRelated == InitRelated /\ [][NextRelated]_vars

\* ------------------------------------------------------------------------
\* C12  (as claimed) A list item of the related-searches region yields a
\* RelatedItem exactly when it contains a link with non-empty visible text;
\* the url is optional, so a link with text and no target url is still
\* emitted, with an absent url.
\* ------------------------------------------------------------------------
HasLinkWithText(li) == \E k \in 1..Len(li) : li[k].text # ""

C12_EmittedIffLinkHasText ==
  (xpc = "done" /\ entry = "_extract_related_queries") =>
    /\ Len(related) = Len(SelectSeq(li_items(region), HasLinkWithText))
    /\ \A k \in 1..Len(related) :
         LET li == SelectSeq(li_items(region), HasLinkWithText)[k]
         IN  \E j \in 1..Len(li) :
               /\ li[j].text = related[k].title
               /\ li[j].href = related[k].url

\* ------------------------------------------------------------------------
\* C12  (amended) A list item of the first related-searches container
\* yields a RelatedItem exactly when it has a link that carries an href
\* attribute and the first such link has non-empty visible text; the item
\* takes title and url from that link, so its url is never absent.  A list
\* item whose links have no href, or whose first link with an href has empty
\* text, is discarded.
\* ------------------------------------------------------------------------
HrefLinks(li) == {k \in 1..Len(li) : li[k].href # "None"}
FirstHrefLink(li) == li[CHOOSE k \in HrefLinks(li) : \A m \in HrefLinks(li) : k <= m]
Emitting(li) == HrefLinks(li) # {} /\ FirstHrefLink(li).text # ""

C12_EmittedIffFirstHrefLinkHasText ==
  (xpc = "done" /\ entry = "_extract_related_queries") =>
    LET src == SelectSeq(li_items(region), Emitting)
    IN  /\ Len(related) = Len(src)
        /\ \A k \in 1..Len(related) :
             /\ related[k].title = FirstHrefLink(src[k]).text
             /\ related[k].url = FirstHrefLink(src[k]).href
             /\ related[k].url # "None"

\* a list item whose first link has text but no href and whose second link
\* has both: one item, from the second link
C12_Witness ==
  /\ xpc = "done"
  /\ entry = "_extract_related_queries"
  /\ region.first = 2
  /\ region.items[1] = << [href |-> "None", text |-> "bing maps"],
                          [href |-> "/search?q=bing+maps", text |-> "bing maps"] >>
  /\ region.items[2] = << [href |-> "None", text |-> "bing maps"] >>
  /\ related = << [title |-> "bing maps", url |-> "/search?q=bing+maps"] >>


\* ========================================================================
\* The emphasized keywords of one organic listing (lines 276-280)
\* ========================================================================
\* strong.get_text(strip=True) of the strong elements of a listing
StrongTexts ==
  { << >>,
    <<"B","i","n","g">>,
    <<"b","i","n","g">>,
    <<"B","I","N","G">>,
    <<"M","a","p","s">>,
    <<"m","a","p">> }

\* {k.lower() for k in emphasized_keywords}
lowered(kws) == {str_lower(kws[k]) : k \in 1..Len(kws)}

\* mutant: the duplicate test compares the spellings as they are
RECURSIVE keywords_loop_case_sensitive(_, _)
keywords_loop_case_sensitive(texts, emphasized_keywords) ==
  IF texts = << >>
  THEN emphasized_keywords
  ELSE LET kw == Head(texts)
       IN  IF /\ kw # << >>
              /\ kw \notin {emphasized_keywords[k] : k \in 1..Len(emphasized_keywords)}
           THEN keywords_loop_case_sensitive(Tail(texts), Append(emphasized_keywords, kw))
           ELSE keywords_loop_case_sensitive(Tail(texts), emphasized_keywords)

\* for strong in li.find_all("strong"): kw = strong.get_text(strip=True);
\* if kw and kw.lower() not in {...}: emphasized_keywords.append(kw)
RECURSIVE keywords_loop(_, _)
keywords_loop(texts, emphasized_keywords) ==
  IF texts = << >>
  THEN emphasized_keywords
  ELSE LET kw == Head(texts)
       IN  IF kw # << >> /\ str_lower(kw) \notin lowered(emphasized_keywords)
           THEN keywords_loop(Tail(texts), Append(emphasized_keywords, kw))
           ELSE keywords_loop(Tail(texts), emphasized_keywords)

InitKeywords ==
  /\ RunIdle
  /\ entry = "_extract_organic_results"
  /\ markup = << >>
  /\ verdict = "pending"
  /\ soup = << >>
  /\ organic = << >>
  /\ paid = << >>
  /\ xpc = "ready"
  /\ region = NoRegion
  /\ related = << >>
  /\ strongs \in UNION { [1..n -> StrongTexts] : n \in 0..MaxStrongs }
  /\ keywords = << >>

\* lines 276-280 for one listing
ExtractKeywords ==
  /\ entry = "_extract_organic_results"
  /\ xpc = "ready"
  /\ keywords' = keywords_loop(strongs, << >>)
  /\ xpc' = "done"
  /\ UNCHANGED << markup, verdict, soup, organic, paid, region, related, strongs >>
  /\ UNCHANGED runvars

NextKeywords == ExtractKeywords

SpecKeywords == InitKeywords /\ [][NextKeywords]_vars

\* two strings are equal, letter case ignored
EqIgnoringCase(a, b) ==
  /\ Len(a) = Len(b)
  /\ \A k \in 1..Len(a) : SameIgnoringCase(a[k], b[k])

\* index in strongs of the first text equal to kw, letter case ignored
FirstOccurrence(kw) ==
  CHOOSE i \in 1..Len(strongs) :
    /\ EqIgnoringCase(strongs[i], kw)
    /\ \A j \in 1..(i - 1) : ~EqIgnoringCase(strongs[j], kw)

\* ------------------------------------------------------------------------
\* C13  The emphasized keywords of an organic listing are its non-empty
\* strong texts with case-insensitive duplicates removed: no two emitted
\* keywords are equal ignoring case, every non-empty strong text equals an
\* emitted keyword ignoring case, each emitted keyword has the spelling of
\* its first occurrence, and the order is that of the first occurrences.
\* ------------------------------------------------------------------------
C13_KeywordsDeduplicated ==
  (xpc = "done" /\ entry = "_extract_organic_results") =>
    /\ \A i, j \in 1..Len(keywords) :
         i # j => ~EqIgnoringCase(keywords[i], keywords[j])
    /\ \A i \in 1..Len(strongs) :
         strongs[i] # << >> =>
           \E k \in 1..Len(keywords) : EqIgnoringCase(strongs[i], keywords[k])
    /\ \A k \in 1..Len(keywords) :
         /\ keywords[k] # << >>
         /\ \E i \in 1..Len(strongs) : EqIgnoringCase(strongs[i], keywords[k])
         /\ strongs[FirstOccurrence(keywords[k])] = keywords[k]
    /\ \A k, m \in 1..Len(keywords) :
         k < m => FirstOccurrence(keywords[k]) < FirstOccurrence(keywords[m])

\* "BING", "Maps", "bing": the third is a duplicate of the first
C13_Witness ==
  /\ xpc = "done"
  /\ strongs = << <<"B","I","N","G">>, <<"M","a","p","s">>, <<"b","i","n","g">> >>
  /\ keywords = << <<"B","I","N","G">>, <<"M","a","p","s">> >>


\* ------------------------------------------------------------------------
\* C14  Whatever the network outcomes, the bodies and the retry ceiling, a
\* body returned by _fetch_page is not detected as blocked by
\* is_soft_blocked; no page record is ever built from a body that the block
\* detector classifies as blocked.
\* ------------------------------------------------------------------------
C14_ReturnedNotBlocked ==
  entry = "main" =>
    /\ html.some => ~is_soft_blocked(html.text)
    /\ results # << >> => html.some
    /\ \A i \in 1..Len(ftrace) :
         (ftrace[i].ev = "get" /\ ~ftrace[i].fail /\ is_soft_blocked(ftrace[i].text)) =>
            html # Some(ftrace[i].text)

C14_ParsedNotBlocked ==
  (entry = "main" /\ results' # results /\ results' # << >>) =>
    /\ html'.some
    /\ ~is_soft_blocked(html'.text)
    /\ ftrace'[Len(ftrace')].ev = "get"
    /\ html' = Some(ftrace'[Len(ftrace')].text)

C14_NoBlockedBodyReturned ==
  /\ []C14_ReturnedNotBlocked
  /\ [][C14_ParsedNotBlocked]_vars

\* a body was returned after a blocked first response and a blocked recovery attempt
C14_Witness ==
  /\ entry = "main"
  /\ pc = "search_for"
  /\ Len(results) = 1
  /\ html.some
  /\ NumGets("recovery") = 2
  /\ is_soft_blocked(ftrace[2].text)
  /\ UnblockedBody(ftrace[Len(ftrace)])

\* ------------------------------------------------------------------------
\* C15  For every retry ceiling R >= 0 and every sequence of network
\* outcomes and bodies, one fetch ends after at most max(1, R) requests of the
\* primary loop plus at most R block-recovery requests; the recovery attempt
\* counter starts at 0 however many primary attempts were used, and every
\* recovery request is preceded by exactly one backoff sleep.
\* ------------------------------------------------------------------------
Max(a, b) == IF a >= b THEN a ELSE b
InFetch == pc \in {"fetch_get", "hsb_entry", "hsb_while"}

C15_RequestBudget ==
  /\ NumGets("primary") <= Max(1, max_retries)
  /\ NumGets("recovery") <= max_retries
  /\ NumGets("primary") = attempt \/ entry # "main"
  /\ RecoveryGets # << >> => RecoveryGets[1].attempt = 1
  /\ (pc = "hsb_while" \/ NumGets("recovery") > 0) => r_attempt = NumGets("recovery")
  /\ NumSleeps("recovery") = NumGets("recovery")
  /\ \A i \in 1..Len(ftrace) :
       IsGet(ftrace[i], "recovery") =>
         /\ i >= 3
         /\ ftrace[i - 2] = Sleep("recovery", ftrace[i].attempt)
         /\ ftrace[i - 1] = UaDraw("recovery", ftrace[i].attempt)
         /\ i >= 4 => ~IsSleep(ftrace[i - 3], "recovery")

\* every step of a running fetch issues a request or moves the control on
C15_Progress ==
  InFetch => (NumRequests' = NumRequests + 1 \/ pc' # pc)

\* runs of one query (or one direct call of handle_soft_block): every fetch
\* of the run belongs to the one search call
InitOneQuery == Init /\ Len(queries) <= 1

\* the interpreter keeps running the one thread of the program: a sleep and a
\* request with a timeout both come back
FairSpec == InitOneQuery /\ [][Next]_vars /\ WF_vars(Next)

C15_FetchIsBounded ==
  /\ []C15_RequestBudget
  /\ [][C15_Progress]_vars
  /\ (InFetch ~> ~InFetch)

\* ceiling 2: both primary attempts used, then both recovery attempts
C15_Witness ==
  /\ entry = "main"
  /\ max_retries = 2
  /\ NumGets("primary") = 2
  /\ NumGets("recovery") = 2
  /\ RecoveryGets[1].attempt = 1
  /\ pc = "raised"

\* ------------------------------------------------------------------------
\* C16  The export of a run is all or nothing with respect to fetch
\* failures: export_all is called only after every page of every configured
\* query was fetched and extracted; when a page fetch fails, no later page
\* or query is fetched, the records gathered so far are never exported, and
\* the run ends in an error.
\* ------------------------------------------------------------------------
\* the page records of queries 1..n, every page fetched
RECURSIVE AllRecords(_)
AllRecords(n) ==
  IF n = 0
  THEN << >>
  ELSE AllRecords(n - 1) \o [p \in 1..queries[n] |-> [term |-> n, page |-> p, html |-> NoneHtml]]

C16_ExportState ==
  entry = "main" =>
    /\ export_calls # << >> =>
         /\ export_calls = << AllRecords(Len(queries)) >>
         /\ all_results = AllRecords(Len(queries))
         /\ qi = Len(queries)
         /\ error = ""
         /\ pc = "done"
    /\ error # "" =>
         /\ pc = "raised"
         /\ export_calls = << >>
         /\ all_results = AllRecords(qi - 1)
         /\ Len(results) = page - 1

C16_NothingAfterFailure ==
  (error # "") =>
    /\ export_calls' = export_calls
    /\ trace' = trace
    /\ ftrace' = ftrace
    /\ qi' = qi
    /\ error' = error

C16_ExportAllOrNothing ==
  /\ []C16_ExportState
  /\ [][C16_NothingAfterFailure]_vars

\* the second page of the second query failed; the records of the first query
\* and of the first page are held and not exported
C16_Witness ==
  /\ entry = "main"
  /\ pc = "raised"
  /\ qi = 2
  /\ page = 2
  /\ Len(results) = 1
  /\ Len(all_results) >= 1
  /\ export_calls = << >>

====
